---- MODULE Spec2Model ----
(***************************************************************************)
(* Model of utils/antlr_grammar_gen.py: the ANTLR version validator, the   *)
(* grammar generator invoker with its two clean-up passes, and the Swift   *)
(* build/transform driver.                                                 *)
(*                                                                         *)
(* A process state is a record st = [cwd, fs, status, trace]:              *)
(*   cwd    the current working directory of the calling process           *)
(*   fs     the file system: a kind for every path of FsPaths              *)
(*   status "ok" while running, "exit1" after exit(1), "failed" after an   *)
(*          uncaught exception (a failed subprocess or a failed unlink)    *)
(*   trace  the ordered events (print, run, unlink) of the current call    *)
(* Every statement is an operator from state to state that does nothing    *)
(* once status is no longer "ok": that is how exit() and exceptions skip   *)
(* the rest of a function.                                                 *)
(*                                                                         *)
(* Paths are sequences of components, absolute ones starting with "/".     *)
(* Text that is parsed (the banner, file names) is a sequence of           *)
(* one-character strings.                                                  *)
(***************************************************************************)
EXTENDS Integers, Sequences, FiniteSets, TLC

VARIABLES cwd, fs, status, trace, last, before

vars == <<cwd, fs, status, trace, last, before>>

\* ------------------------------------------------------------------ bounds
MaxFiles == 2

\* ------------------------------------------------------- generic helpers
SeqsUpTo(S, n) == UNION {[1..k -> S] : k \in 0..n}

Perms(S) == {s \in [1..Cardinality(S) -> S] : \A i, j \in 1..Cardinality(S) : s[i] = s[j] => i = j}

StartsWith(s, p) == Len(s) >= Len(p) /\ SubSeq(s, 1, Len(p)) = p

EndsWith(s, p) == Len(s) >= Len(p) /\ SubSeq(s, Len(s) - Len(p) + 1, Len(s)) = p

\* --------------------------------------------------------------- constants
antlr_req == <<"4", ".", "1", "1">>

swift_build_args == << <<"-c=release">> >>

Workdir == <<"/", "w">>

grammars_package_path == <<"/", "w", "AntlrGrammars">>

None == <<>>

\* ------------------------------------------------------------------ paths
IsAbs(p) == Len(p) > 0 /\ p[1] = "/"

Resolve(dir, p) == IF IsAbs(p) THEN p ELSE dir \o p

make_relative(base, p) ==
    IF IsAbs(p) /\ StartsWith(p, base) THEN SubSeq(p, Len(base) + 1, Len(p)) ELSE p


\* ------------------------------------------------------------ file system
\* The characters of each file name that occurs in the model.
NameChars(n) ==
    CASE n = "Foo.interp" -> <<"F", "o", "o", ".", "i", "n", "t", "e", "r", "p">>
      [] n = "Bar.interp" -> <<"B", "a", "r", ".", "i", "n", "t", "e", "r", "p">>
      [] n = "Foo.tokens" -> <<"F", "o", "o", ".", "t", "o", "k", "e", "n", "s">>
      [] n = "Foo.swift"  -> <<"F", "o", "o", ".", "s", "w", "i", "f", "t">>
      [] n = "interp"     -> <<"i", "n", "t", "e", "r", "p">>
      [] n = "out"        -> <<"o", "u", "t">>
      [] OTHER            -> <<>>

OutDir == Workdir \o <<"out">>

\* Entries directly in the output directory, one below it, and one beside it.
FsPaths ==
    { OutDir \o <<"Foo.interp">>, OutDir \o <<"Bar.interp">>, OutDir \o <<"Foo.tokens">>,
      OutDir \o <<"Foo.swift">>, OutDir \o <<"interp">>,
      OutDir \o <<"interp", "Foo.interp">>, Workdir \o <<"Foo.tokens">> }

\* "none": no such entry; "file": a regular file; "dir": a directory;
\* "locked": a regular file whose unlink fails (raises OSError).
Kinds == {"none", "file", "dir", "locked"}

InitialKinds(p) ==
    CASE p = OutDir \o <<"Foo.interp">> -> {"none", "file", "dir", "locked"}
      [] p = OutDir \o <<"Bar.interp">> -> {"none", "file"}
      [] p = OutDir \o <<"Foo.tokens">> -> {"none", "file", "locked"}
      [] p = OutDir \o <<"Foo.swift">>  -> {"file"}
      [] p = OutDir \o <<"interp">>     -> {"none", "dir"}
      [] p = OutDir \o <<"interp", "Foo.interp">> -> {"none", "file"}
      [] OTHER -> {"file"}

FileSystems ==
    {f \in [FsPaths -> Kinds] :
        /\ \A p \in FsPaths : f[p] \in InitialKinds(p)
        /\ f[OutDir \o <<"interp", "Foo.interp">>] = "file" <=> f[OutDir \o <<"interp">>] = "dir"}

Parent(p) == SubSeq(p, 1, Len(p) - 1)

BaseName(p) == p[Len(p)]

is_file(f, abs) == abs \in FsPaths /\ f[abs] \in {"file", "locked"}

\* fnmatch of a name against the pattern "*" followed by the literal suffix.
fnmatch_star(name, suffix) == EndsWith(NameChars(name), suffix)

\* Path.glob("*<suffix>"): the entries directly in the directory whose name
\* matches, each as directory / name (relative when the directory is).
glob(st, dir, suffix) ==
    {dir \o <<BaseName(p)>> : p \in {q \in FsPaths :
        /\ st.fs[q] # "none"
        /\ Parent(q) = Resolve(st.cwd, dir)
        /\ fnmatch_star(BaseName(q), suffix)}}

InterpSuffix == <<".", "i", "n", "t", "e", "r", "p">>

TokensSuffix == <<".", "t", "o", "k", "e", "n", "s">>

\* ------------------------------------------------------------------ events
PrintEv(what, path) ==
    [ev |-> "print", what |-> what, path |-> path, args |-> <<>>, dir |-> <<>>, ok |-> TRUE]

RunEv(bin, args, dir, ok) ==
    [ev |-> "run", what |-> bin, path |-> <<>>, args |-> args, dir |-> dir, ok |-> ok]

UnlinkEv(path, ok) ==
    [ev |-> "unlink", what |-> "unlink", path |-> path, args |-> <<>>, dir |-> <<>>, ok |-> ok]

\* ------------------------------------------------------------- statements
print(st, what, path) ==
    IF st.status # "ok" THEN st
    ELSE [st EXCEPT !.trace = Append(@, PrintEv(what, path))]

exit(st, code) ==
    IF st.status # "ok" THEN st
    ELSE [st EXCEPT !.status = IF code = 1 THEN "exit1" ELSE "exit0"]

\* process.run: one subprocess, in directory dir when given and in the
\* caller's directory otherwise; a failing subprocess raises.
run(st, bin, args, dir, ok) ==
    IF st.status # "ok" THEN st
    ELSE [st EXCEPT !.trace = Append(@, RunEv(bin, args, IF dir = None THEN st.cwd ELSE dir, ok)),
                    !.status = IF ok THEN "ok" ELSE "failed"]

\* process.run_output: as run, and the caller reads the subprocess's output.
run_output(st, bin, args, ok) == run(st, bin, args, None, ok)

\* Path.unlink: removes the entry; raises for an entry that cannot be removed.
unlink(st, path) ==
    IF st.status # "ok" THEN st
    ELSE LET abs == Resolve(st.cwd, path)
             ok == st.fs[abs] = "file"
         IN [st EXCEPT !.trace = Append(@, UnlinkEv(path, ok)),
                       !.fs = IF ok THEN [@ EXCEPT ![abs] = "none"] ELSE @,
                       !.status = IF ok THEN "ok" ELSE "failed"]


\* ------------------------------------------------------ version validator
Digits == {"0", "1", "2", "3", "4", "5", "6", "7", "8", "9"}

Whitespace == {" ", "\t", "\n"}

BannerPhrase == <<"A", "N", "T", "L", "R", " ", "P", "a", "r", "s", "e", "r", " ", "G", "e", "n", "e", "r", "a", "t", "o", "r">>

VersionWord == <<"V", "e", "r", "s", "i", "o", "n">>

\* First position at or after i that holds no character of the class.
RECURSIVE SkipClass(_, _, _)
SkipClass(s, i, class) ==
    IF i <= Len(s) /\ s[i] \in class THEN SkipClass(s, i + 1, class) ELSE i

\* A literal at position i: the position after it, or 0 when it is not there.
MatchLiteral(s, i, lit) ==
    IF i = 0 \/ i + Len(lit) - 1 > Len(s) THEN 0
    ELSE IF SubSeq(s, i, i + Len(lit) - 1) = lit THEN i + Len(lit) ELSE 0

\* \s+ at position i: the position after the run, or 0 when the run is empty.
MatchSpaces(s, i) ==
    IF i = 0 THEN 0
    ELSE IF SkipClass(s, i, Whitespace) > i THEN SkipClass(s, i, Whitespace) ELSE 0

\* (?:\d+\.)+\d+ at position i, greedy with backtracking: the position after
\* the match, or 0.  groups counts the "\d+\." repetitions already taken.
RECURSIVE MatchDotted(_, _, _)
MatchDotted(s, i, groups) ==
    LET j == SkipClass(s, i, Digits)
    IN IF j = i THEN 0
       ELSE IF j + 1 <= Len(s) /\ s[j] = "." /\ s[j + 1] \in Digits
            THEN MatchDotted(s, j + 1, groups + 1)
            ELSE IF groups >= 1 THEN j ELSE 0

\* The pattern tried at position i of the text: <<group 1>> for a match and
\* None otherwise.
pattern_match_at(text, i) ==
    LET a == MatchLiteral(text, i, BannerPhrase)
        b == MatchSpaces(text, a)
        c == MatchLiteral(text, b, VersionWord)
        d == MatchSpaces(text, c)
        e == IF d = 0 THEN 0 ELSE MatchDotted(text, d, 0)
    IN IF e = 0 THEN None ELSE <<SubSeq(text, d, e - 1)>>

\* Faulty variant: re.search in place of re.match, the first match anywhere.
antlr_version_pattern_search(text) ==
    LET hits == {i \in 1..Len(text) : pattern_match_at(text, i) # None}
    IN IF hits = {} THEN None
       ELSE pattern_match_at(text, CHOOSE i \in hits : \A j \in hits : i <= j)

\* re.compile(...).match(text): anchored at the start of the text.
antlr_version_pattern_match(text) == pattern_match_at(text, 1)

\* Faulty variant: the version must equal the required string.
version_equals_required(antlr_version) == antlr_version = antlr_req

\* antlr_version.startswith(antlr_req)
version_accepted(antlr_version) == StartsWith(antlr_version, antlr_req)

probe_args(antlr_v) == IF antlr_v # None THEN << <<"-v">>, antlr_v >> ELSE <<>>

NotFoundMessage == "Antlr4 not found! Please install Antlr4 before proceeding: https://antlr.org"

MismatchMessage == "Expected Antlr version 4.11.*, but found"

\* text is what the version probe wrote to its standard output.
validate_antlr_version(st, antlr_v, ok, text) ==
    LET s1 == run_output(st, "antlr4", probe_args(antlr_v), ok)
        antlr_version_match == antlr_version_pattern_match(text)
    IN IF s1.status # "ok" THEN s1
       ELSE IF antlr_version_match = None
            THEN exit(print(s1, NotFoundMessage, <<>>), 1)
            ELSE IF ~version_accepted(antlr_version_match[1])
                 THEN exit(print(s1, MismatchMessage, antlr_version_match[1]), 1)
                 ELSE s1

\* ------------------------------------------------------ swift tool driver
\* Faulty variant: changes the directory of the process instead of the subprocess's.
call_swift_chdir(st, args, ok) ==
    run([st EXCEPT !.cwd = grammars_package_path], "swift", args, None, ok)

\* Faulty variant: a failed invocation is issued once more.
call_swift_retry(st, args, ok) ==
    LET s1 == run(st, "swift", args, grammars_package_path, ok)
    IN IF s1.status = "failed"
       THEN run([s1 EXCEPT !.status = "ok"], "swift", args, grammars_package_path, ok)
       ELSE s1

call_swift(st, args, ok) == run(st, "swift", args, grammars_package_path, ok)

build_swift_gen_transformer(st, ok) ==
    call_swift(st, << <<"build">> >> \o swift_build_args, ok)

\* Faulty variant: the status line is printed once the tool has returned.
transform_source_print_after(st, swift_files, ok) ==
    print(call_swift(st,
                     << <<"run">> >> \o swift_build_args
                         \o << <<"--skip-build">>, <<"AntlrGrammars">> >> \o swift_files,
                     ok),
          "Transforming source files...", <<>>)

transform_source(st, swift_files, ok) ==
    call_swift(print(st, "Transforming source files...", <<>>),
               << <<"run">> >> \o swift_build_args
                   \o << <<"--skip-build">>, <<"AntlrGrammars">> >> \o swift_files,
               ok)

\* ------------------------------------------------------ grammar generator
normalized_paths(dir, files) == [i \in 1..Len(files) |-> make_relative(dir, files[i])]

\* Faulty variant: "if antlr_v:", which also drops the empty selector.
generator_args_truthy_version(dir, output_path, files, antlr_v) ==
    (IF antlr_v # None /\ antlr_v # <<"">> THEN << <<"-v">>, antlr_v >> ELSE <<>>)
        \o << <<"-Dlanguage=Swift">>, <<"-visitor">> >>
        \o normalized_paths(dir, files)
        \o << <<"-o">>, make_relative(dir, output_path), <<"-Xexact-output-dir">> >>

generator_args(dir, output_path, files, antlr_v) ==
    (IF antlr_v # None THEN << <<"-v">>, antlr_v >> ELSE <<>>)
        \o << <<"-Dlanguage=Swift">>, <<"-visitor">> >>
        \o normalized_paths(dir, files)
        \o << <<"-o">>, make_relative(dir, output_path), <<"-Xexact-output-dir">> >>

\* Faulty variant: a failure of the generator is swallowed.
invoke_generator_ignoring_failure(st, output_path, files, antlr_v, ok) ==
    LET s1 == run(print(st, "Generating Antlr grammar files to",
                        make_relative(st.cwd, output_path)),
                  "antlr4", generator_args(st.cwd, output_path, files, antlr_v), None, ok)
    IN [s1 EXCEPT !.status = "ok"]

\* Faulty variant: nothing is invoked when there is no input file.
invoke_generator_skip_empty(st, output_path, files, antlr_v, ok) ==
    IF files = <<>> THEN st
    ELSE run(print(st, "Generating Antlr grammar files to",
                   make_relative(st.cwd, output_path)),
             "antlr4", generator_args(st.cwd, output_path, files, antlr_v), None, ok)

\* The status line and the generator invocation.
invoke_generator(st, output_path, files, antlr_v, ok) ==
    run(print(st, "Generating Antlr grammar files to", make_relative(st.cwd, output_path)),
        "antlr4", generator_args(st.cwd, output_path, files, antlr_v), None, ok)

\* The body of one clean-up loop over the files the glob yielded, in order.
RECURSIVE cleanup_pass(_, _, _)
cleanup_pass(st, dir, files) ==
    IF files = <<>> THEN st
    ELSE LET file == Head(files)
             s1 == IF st.status = "ok" /\ is_file(st.fs, Resolve(st.cwd, file))
                   THEN print(unlink(st, file), "Removed", make_relative(dir, file))
                   ELSE st
         IN cleanup_pass(s1, dir, Tail(files))

\* The function up to and including the "*.interp" pass.
generate_until_interp(st, output_path, files, antlr_v, ok, interps) ==
    cleanup_pass(
        print(invoke_generator(st, output_path, files, antlr_v, ok),
              "Removing extraneous generated files in", make_relative(st.cwd, output_path)),
        st.cwd, interps)

\* Faulty variant: the "*.tokens" pass is missing.
generate_antlr_grammar_interp_only(st, output_path, files, antlr_v, ok, interps, tokens) ==
    generate_until_interp(st, output_path, files, antlr_v, ok, interps)

\* interps and tokens are the two globs' results in the order the directory
\* enumeration produced them.
generate_antlr_grammar(st, output_path, files, antlr_v, ok, interps, tokens) ==
    cleanup_pass(generate_until_interp(st, output_path, files, antlr_v, ok, interps),
                 st.cwd, tokens)

\* ------------------------------------------------------------------ inputs
BannerVersions ==
    { <<"4", ".", "1", "1", ".", "1">>,
      <<"4", ".", "1", "0", ".", "3">>,
      <<"4", ".", "1", "1", "0", ".", "0">>,
      <<"4", ".", "1", ".", "1">>,
      <<"4", ".", "1", "1">>,
      <<"4", ".", "1", "1", ".">>,
      <<"4", ".", "1", "2", ".", "0">>,
      <<"1", "4", ".", "1", "1", ".", "1">>,
      <<"4">>,
      <<>>,
      <<"4", ".", "1", "1", ".", "1", "0", ".", "2">> }

BannerLead == {<<>>, <<"\n">>}

BannerPhrases == {BannerPhrase, <<>>}

BannerGaps == {<<>>, <<" ", " ">>, <<"\t">>}

BannerWords == {VersionWord, <<"v", "e", "r", "s", "i", "o", "n">>}

\* What the version probe may print.
BannerOutputs ==
    {l \o p \o g \o w \o <<" ">> \o v \o <<"\n">> :
        l \in BannerLead, p \in BannerPhrases, g \in BannerGaps, w \in BannerWords,
        v \in BannerVersions}
        \cup {p \o <<" ">> \o VersionWord \o v : p \in BannerPhrases, v \in BannerVersions}
        \cup {<<>>, <<"x">>}

\* The probe outputs used next to the other operations.
SampleOutputs ==
    { <<>>,
      BannerPhrase \o <<" ", " ">> \o VersionWord \o <<" ">> \o <<"4", ".", "1", "1", ".", "1">>,
      BannerPhrase \o <<" ", " ">> \o VersionWord \o <<" ">> \o <<"4", ".", "1", "0", ".", "3">> }

VersionSelectors == {None, <<"4.11.1">>, <<"">>}

InputPaths == { <<"G.g4">>, Workdir \o <<"grammars", "L.g4">> }

FileLists == SeqsUpTo(InputPaths, MaxFiles)

OutputPaths == { <<"out">>, OutDir }


\* ------------------------------------------------------------ the process
\* The state a call starts from: the process is running and the call's
\* trace is empty.
Current == [cwd |-> cwd, fs |-> fs, status |-> "ok", trace |-> <<>>]

Call(op, output_path, files, antlr_v, text) ==
    [op |-> op, output_path |-> output_path, files |-> files, antlr_v |-> antlr_v, text |-> text]

\* The call returned, exited or raised in state s.
Finish(s, call) ==
    /\ cwd' = s.cwd
    /\ fs' = s.fs
    /\ status' = s.status
    /\ trace' = s.trace
    /\ last' = call
    /\ before' = [cwd |-> cwd, fs |-> fs]

Init ==
    /\ cwd = Workdir
    /\ fs \in FileSystems
    /\ status = "ok"
    /\ trace = <<>>
    /\ last = Call("none", <<>>, <<>>, None, <<>>)
    /\ before = [cwd |-> cwd, fs |-> fs]

Validate(outputs) ==
    /\ status = "ok"
    /\ \E antlr_v \in VersionSelectors, ok \in BOOLEAN, text \in outputs :
          Finish(validate_antlr_version(Current, antlr_v, ok, text),
                 Call("validate", <<>>, <<>>, antlr_v, IF ok THEN text ELSE <<>>))

ValidateSample == Validate(SampleOutputs)

ValidateAny == Validate(BannerOutputs)

Generate ==
    /\ status = "ok"
    /\ \E output_path \in OutputPaths, files \in FileLists, antlr_v \in VersionSelectors,
          ok \in BOOLEAN :
          \E interps \in Perms(glob(Current, output_path, InterpSuffix)) :
             \E tokens \in Perms(glob(generate_until_interp(Current, output_path, files,
                                                            antlr_v, ok, interps),
                                      output_path, TokensSuffix)) :
                Finish(generate_antlr_grammar(Current, output_path, files, antlr_v, ok,
                                              interps, tokens),
                       Call("generate", output_path, files, antlr_v, <<>>))

Build ==
    /\ status = "ok"
    /\ \E ok \in BOOLEAN :
          Finish(build_swift_gen_transformer(Current, ok), Call("build", <<>>, <<>>, None, <<>>))

Transform ==
    /\ status = "ok"
    /\ \E swift_files \in FileLists, ok \in BOOLEAN :
          Finish(transform_source(Current, swift_files, ok),
                 Call("transform", <<>>, swift_files, None, <<>>))

Next == ValidateSample \/ Generate \/ Build \/ Transform

Spec == Init /\ [][Next]_vars

\* The validator alone, over every probe output of BannerOutputs, next to an
\* output directory that holds one entry of each kind.
InitValidate ==
    /\ Init
    /\ fs = [p \in FsPaths |-> IF p = OutDir \o <<"interp">> THEN "dir" ELSE "file"]

NextValidate == ValidateAny

SpecValidate == InitValidate /\ [][NextValidate]_vars


\* ============================================================ properties
\* ------------------------------------------------- reading a call's trace
Events(kind) == {i \in 1..Len(trace) : trace[i].ev = kind}

Printed(what) == {i \in 1..Len(trace) : trace[i].ev = "print" /\ trace[i].what = what}

\* The subprocess invocations of the call, and the only one when there is one.
TheRun == trace[CHOOSE i \in Events("run") : TRUE]

OneRun == Cardinality(Events("run")) = 1

\* The banner pattern, stated on the text itself: v is a dotted number.
IsDotted(v) ==
    /\ Len(v) >= 3
    /\ v[1] \in Digits /\ v[Len(v)] \in Digits
    /\ \A i \in 1..Len(v) : v[i] \in Digits \cup {"."}
    /\ \E i \in 1..Len(v) : v[i] = "."
    /\ \A i \in 1..(Len(v) - 1) : ~(v[i] = "." /\ v[i + 1] = ".")

\* The positions at which text continues after one or more whitespace
\* characters that start at position i.
AfterSpaces(text, i) ==
    {j \in (i + 1)..(Len(text) + 1) : \A k \in i..(j - 1) : text[k] \in Whitespace}

\* The positions after the literal, for each position of from that holds it.
AfterLiteral(text, from, lit) ==
    {j + Len(lit) : j \in {k \in from : /\ k + Len(lit) - 1 <= Len(text)
                                          /\ SubSeq(text, k, k + Len(lit) - 1) = lit}}

\* The <<first, last>> positions of the dotted numbers that end a match of
\* the banner pattern starting at position i of the text.
BannerMatchesAt(text, i) ==
    LET afterPhrase  == AfterLiteral(text, {i}, BannerPhrase)
        beforeWord   == UNION {AfterSpaces(text, j) : j \in afterPhrase}
        afterWord    == AfterLiteral(text, beforeWord, VersionWord)
        beforeNumber == UNION {AfterSpaces(text, j) : j \in afterWord}
    IN {de \in beforeNumber \X (1..Len(text)) :
           de[1] <= de[2] /\ IsDotted(SubSeq(text, de[1], de[2]))}

BeginsWithBanner(text) == BannerMatchesAt(text, 1) # {}

ContainsBanner(text) == \E i \in 1..Len(text) : BannerMatchesAt(text, i) # {}

\* Group 1 of the match at the start of the text: the longest dotted number.
ExtractedVersion(text) ==
    LET de == CHOOSE x \in BannerMatchesAt(text, 1) :
                  \A y \in BannerMatchesAt(text, 1) : y[2] <= x[2]
    IN SubSeq(text, de[1], de[2])

RequiredPrefix == antlr_req \o <<".">>

\* The version probe ran and its output was read.
ProbeReturned == last.op = "validate" /\ OneRun /\ TheRun.ok

NotFoundTaken == status = "exit1" /\ Printed(NotFoundMessage) # {}

MismatchTaken == status = "exit1" /\ Printed(MismatchMessage) # {}


\* ------------------------------------------------------------------- C1
\* C1 (as claimed): whenever the probe output begins with the banner and the
\* extracted version does not begin with "4.11.", validation prints the
\* version-mismatch diagnostic and exits with status 1.
C1_RejectsOtherVersions ==
    (ProbeReturned /\ BeginsWithBanner(last.text)
        /\ ~StartsWith(ExtractedVersion(last.text), RequiredPrefix))
    => MismatchTaken

\* ------------------------------------------------------------------- C2
\* C2 (as claimed): a probe output that contains no match of the banner
\* pattern ends in the not-found diagnostic and exit status 1 without the
\* mismatch diagnostic, and an output that contains a match anywhere never
\* ends in the not-found outcome.
C2_NotFoundIffNoMatchAnywhere ==
    ProbeReturned =>
        /\ ~ContainsBanner(last.text) => (NotFoundTaken /\ Printed(MismatchMessage) = {})
        /\ ContainsBanner(last.text) => ~NotFoundTaken

\* C2 (amended): a probe output that does not begin with a match of the
\* banner pattern ends in the not-found diagnostic and exit status 1 without
\* the mismatch diagnostic, and an output that begins with a match never
\* ends in the not-found outcome.
C2_NotFoundIffNoMatchAtStart ==
    ProbeReturned =>
        /\ ~BeginsWithBanner(last.text) => (NotFoundTaken /\ Printed(MismatchMessage) = {})
        /\ BeginsWithBanner(last.text) => ~NotFoundTaken

\* The banner is in the output, but not at its start, and the tool is
\* reported as not found.
C2_Witness ==
    /\ ProbeReturned
    /\ ContainsBanner(last.text) /\ ~BeginsWithBanner(last.text)
    /\ NotFoundTaken

\* ------------------------------------------------------------------- C3
\* C3: whenever the probe output begins with the banner and the extracted
\* version begins with "4.11.", validation returns normally: the process
\* keeps running, nothing is printed, no file is deleted, the working
\* directory is the same, and the trace holds the version probe alone.
C3_AcceptedVersionReturns ==
    (ProbeReturned /\ BeginsWithBanner(last.text)
        /\ StartsWith(ExtractedVersion(last.text), RequiredPrefix))
    => /\ status = "ok"
       /\ Events("print") = {} /\ Events("unlink") = {}
       /\ fs = before.fs /\ cwd = before.cwd
       /\ Len(trace) = 1
       /\ TheRun.what = "antlr4"
       /\ TheRun.args = (IF last.antlr_v = None THEN <<>> ELSE << <<"-v">>, last.antlr_v >>)

\* Version 4.11.1 was read from the banner and the validator returned.
C3_Witness ==
    /\ ProbeReturned
    /\ BeginsWithBanner(last.text)
    /\ ExtractedVersion(last.text) = <<"4", ".", "1", "1", ".", "1">>
    /\ status = "ok"



\* ------------------------------------------------------------------- C4
\* A regular file directly in the output directory whose name ends in
\* ".interp" or ".tokens", in the file system f.
Extraneous(f, p) ==
    /\ Parent(p) = OutDir
    /\ f[p] \in {"file", "locked"}
    /\ \/ EndsWith(NameChars(BaseName(p)), InterpSuffix)
       \/ EndsWith(NameChars(BaseName(p)), TokensSuffix)

RemovedLines(p) ==
    {i \in Printed("Removed") : Resolve(before.cwd, trace[i].path) = p}

\* C4: when generate_antlr_grammar returns, the file system is the one
\* before the call without the extraneous files of the output directory,
\* every other entry is as it was, and there is exactly one "Removed" line
\* for each deleted file and none for any other path.
C4_CleanupRemovesExactlyExtraneous ==
    (last.op = "generate" /\ status = "ok") =>
        /\ fs = [p \in FsPaths |-> IF Extraneous(before.fs, p) THEN "none" ELSE before.fs[p]]
        /\ \A p \in FsPaths :
              Cardinality(RemovedLines(p)) = (IF Extraneous(before.fs, p) THEN 1 ELSE 0)
        /\ Cardinality(Printed("Removed")) =
              Cardinality({p \in FsPaths : Extraneous(before.fs, p)})

\* Foo.tokens, Foo.interp and Foo.swift were there, next to a directory with
\* a Foo.interp below it; only the first two are gone.
C4_Witness ==
    /\ last.op = "generate" /\ status = "ok"
    /\ before.fs[OutDir \o <<"Foo.interp">>] = "file" /\ fs[OutDir \o <<"Foo.interp">>] = "none"
    /\ before.fs[OutDir \o <<"Foo.tokens">>] = "file" /\ fs[OutDir \o <<"Foo.tokens">>] = "none"
    /\ fs[OutDir \o <<"Foo.swift">>] = "file"
    /\ fs[OutDir \o <<"interp", "Foo.interp">>] = "file"
    /\ Cardinality(Printed("Removed")) = 2

\* ------------------------------------------------------------------- C5
VersionArgs == IF last.antlr_v = None THEN <<>> ELSE << <<"-v">>, last.antlr_v >>

\* a names, relative to the directory the call started in, the file p names.
SameFileRelative(a, p) ==
    ~IsAbs(a) /\ Resolve(before.cwd, a) = Resolve(before.cwd, p)

\* C5: the generator is invoked once, with ["-v", version] first exactly
\* when a version selector was given, then -Dlanguage=Swift -visitor, then
\* one relative path per input file in the caller's order, then -o, the
\* relative output directory and -Xexact-output-dir.
C5_GeneratorCommandShape ==
    last.op = "generate" =>
        /\ OneRun
        /\ TheRun.what = "antlr4"
        /\ LET a == TheRun.args
               v == Len(VersionArgs)
               n == Len(last.files)
           IN /\ Len(a) = v + n + 5
              /\ SubSeq(a, 1, v) = VersionArgs
              /\ (v = 2) <=> (last.antlr_v # None)
              /\ a[v + 1] = <<"-Dlanguage=Swift">>
              /\ a[v + 2] = <<"-visitor">>
              /\ \A i \in 1..n : SameFileRelative(a[v + 2 + i], last.files[i])
              /\ a[v + n + 3] = <<"-o">>
              /\ SameFileRelative(a[v + n + 4], last.output_path)
              /\ a[v + n + 5] = <<"-Xexact-output-dir">>

\* Two different inputs, one of them absolute, and the empty string as the
\* version selector.
C5_Witness ==
    /\ last.op = "generate"
    /\ last.files = << Workdir \o <<"grammars", "L.g4">>, <<"G.g4">> >>
    /\ last.antlr_v = <<"">>
    /\ last.output_path = OutDir
    /\ OneRun /\ Len(TheRun.args) = 9

\* ------------------------------------------------------------------- C6
\* C6: transform_source prints its status line and then invokes
\* "swift run -c=release --skip-build AntlrGrammars <paths>" once, the paths
\* exactly as given and in the caller's order; nothing follows the
\* invocation.
C6_TransformCommandAfterStatusLine ==
    last.op = "transform" =>
        /\ Len(trace) = 2
        /\ trace[1] = PrintEv("Transforming source files...", <<>>)
        /\ trace[2].ev = "run"
        /\ trace[2].what = "swift"
        /\ trace[2].args = << <<"run">>, <<"-c=release">>, <<"--skip-build">>, <<"AntlrGrammars">> >>
                               \o last.files

\* An absolute and a relative path were handed to the transformer.
C6_Witness ==
    /\ last.op = "transform"
    /\ last.files = << Workdir \o <<"grammars", "L.g4">>, <<"G.g4">> >>
    /\ Len(trace) = 2 /\ trace[2].ev = "run"

\* ------------------------------------------------------------------- C7
\* C7: build and transform run the build tool in the grammars package
\* directory and leave the working directory of the process alone: it is
\* the initial one in every state, so generate_antlr_grammar always runs
\* the generator there and names the output directory relative to it.
C7_WorkingDirectoryScoped ==
    /\ cwd = Workdir
    /\ last.op \in {"build", "transform"} =>
          /\ OneRun
          /\ TheRun.what = "swift" /\ TheRun.dir = grammars_package_path
          /\ cwd = before.cwd
    /\ last.op = "generate" =>
          /\ before.cwd = Workdir
          /\ OneRun /\ TheRun.dir = Workdir
          /\ TheRun.args[Len(TheRun.args) - 1] = <<"out">>

\* A transform ran in the package directory and the process is still in its
\* own directory, ready for the next call.
C7_Witness ==
    /\ last.op = "transform" /\ status = "ok"
    /\ OneRun /\ TheRun.dir = grammars_package_path
    /\ cwd = Workdir /\ cwd # grammars_package_path

\* ------------------------------------------------------------------- C8
\* C8: in generate_antlr_grammar every clean-up event (the "Removing
\* extraneous generated files" line, an unlink, a "Removed" line) comes after
\* a successful generator invocation; when the invocation fails the call
\* ends in the failure with no such event and the file system untouched.
C8_CleanupOnlyAfterSuccess ==
    last.op = "generate" =>
        /\ OneRun
        /\ \A i \in Events("unlink") \cup Printed("Removed")
                    \cup Printed("Removing extraneous generated files in") :
              TheRun.ok /\ \A r \in Events("run") : r < i
        /\ ~TheRun.ok =>
              /\ status = "failed"
              /\ fs = before.fs
              /\ Events("unlink") = {}
              /\ Printed("Removed") = {}
              /\ Printed("Removing extraneous generated files in") = {}

\* The generator failed next to an output directory full of extraneous
\* files.
C8_Witness ==
    /\ last.op = "generate" /\ status = "failed"
    /\ OneRun /\ ~TheRun.ok
    /\ fs[OutDir \o <<"Foo.interp">>] = "file"
    /\ fs[OutDir \o <<"Foo.tokens">>] = "file"

\* ------------------------------------------------------------------- C9
Unlinked(p) ==
    \E i \in Events("unlink") : trace[i].ok /\ Resolve(before.cwd, trace[i].path) = p

\* C9: every call makes exactly one subprocess invocation, whether it
\* succeeds or fails, and what the call has done stays done: a file is gone
\* exactly when the call unlinked it, also when the call failed later.
C9_OneInvocationNoRollback ==
    last.op # "none" =>
        /\ OneRun
        /\ ~TheRun.ok => status = "failed"
        /\ \A p \in FsPaths : fs[p] = (IF Unlinked(p) THEN "none" ELSE before.fs[p])

\* A clean-up pass failed on one file after another had been deleted.
C9_Witness ==
    /\ last.op = "generate" /\ status = "failed"
    /\ OneRun /\ TheRun.ok
    /\ \E i \in Events("unlink") : ~trace[i].ok
    /\ \E p \in FsPaths : Unlinked(p) /\ before.fs[p] = "file" /\ fs[p] = "none"

\* ------------------------------------------------------------------ C10
EmptyInputCommand ==
    /\ OneRun
    /\ TheRun.what = "antlr4"
    /\ TheRun.args = VersionArgs \o << <<"-Dlanguage=Swift">>, <<"-visitor">>, <<"-o">>,
                                      <<"out">>, <<"-Xexact-output-dir">> >>

CleanupStarted ==
    \E i \in Printed("Removing extraneous generated files in") :
        \A r \in Events("run") : r < i

====
